---- MODULE Spec2Model ----
(***************************************************************************)
(* Model of the Arcan-shmif display bridge of QEMU (src/ui/arcan.c).        *)
(*                                                                         *)
(* The state machines below share one set of variables:                    *)
(*   Spec      the event pump of one segment: arcan_refresh, input_event,   *)
(*             system_event, reset_dpykbd;                                  *)
(*   SpecBlit  the pixel path of one segment: arcan_switch, arcan_update;   *)
(*   SpecEnum  segment enumeration: arcan_display_init;                     *)
(*   SpecQuiet the event pump while nothing is queued during a tick;        *)
(*   SpecSeg   the display callbacks of one segment: arcan_switch with any  *)
(*             surface or none, arcan_update, arcan_gl_scanout_texture and  *)
(*             a refresh tick that handles a reset request;                 *)
(*   SpecFmt   arcan_check_format;                                          *)
(*   SpecTitle arcan_kbd_leds and arcan_vmstate_chg;                        *)
(*   SpecOrd   the event pump with the content of the queue;                *)
(*   SpecGL    arcan_egl_create_context, arcan_egl_destroy_context and      *)
(*             arcan_gl_scanout_texture;                                    *)
(*   SpecPix   the pixel path on surfaces of every accepted format.         *)
(* A machine leaves the variables of the others at their initial value.     *)
(***************************************************************************)
EXTENDS Integers, Sequences, FiniteSets, TLC

VARIABLES
    \* ---- event pump (arcan_refresh and the handlers it calls)
    pc,              \* position of arcan_refresh: "idle" | "poll"
    pending,         \* number of events waiting in the segment's inbound queue
    ev,              \* the local `ev` of arcan_refresh: the event last polled
    queue_flush,     \* the local `queue_flush` of arcan_refresh
    out,             \* virtual-input calls made while dispatching `ev`, in order
    nsync,           \* qemu_input_event_sync calls made in the current tick
    handled,         \* did a device event of the current tick reach the virtual input
    runreq,          \* run-state request made while dispatching `ev`
    sig,             \* frame signal sent by the last operation: "none" | "SIGVID"
    kbd_statetbl,    \* dpy_state.kbd_statetbl
    hidden,          \* dpy_state.hidden
    update_interval, \* refresh interval of the segment's listener
    keyshadow,       \* per scan code: was the last key event since the last focus-loss reset a press
    hintshadow,      \* invisible bit of the last display hint with the reserved bit clear
    \* ---- segment geometry and pixel path
    seg_w, seg_h,    \* dpy.w, dpy.h
    dirty,           \* dpy.dirty: <<x1, y1, x2, y2>>
    addr,            \* dpy.addr # NULL: the segment is connected
    seg_pitch,       \* dpy.pitch, in pixels
    vidp,            \* dpy.vidp: the shared pixel buffer, seg_pitch * seg_h pixels
    vbufc,           \* arcan_ctx.vbufc
    mode,            \* dpy_state.mode
    surface,         \* dpy_state.surface: the cached surface, NoSurface for NULL
    lastop,          \* the last display callback and its arguments
    segcalls,        \* transport calls made by the last display callback, in order
    ptr,             \* dpy_state.ptr: the surface whose pixel data it points to
    bpp,             \* dpy_state.bpp
    fmt,             \* dpy_state.fmt: the format tag it was derived from
    abufc,           \* arcan_ctx.abufc
    abuf_sz,         \* arcan_ctx.abuf_sz
    context_mask,    \* the static context_mask of the GL callbacks
    fault,           \* the process was stopped by an invalid memory access
    fmtcheck,        \* the last call of arcan_check_format: its argument and result
    stale,           \* the console withdrew the cached surface (a switch to NULL)
    \* ---- GL contexts
    live,            \* handles of the contexts created and not yet destroyed, in order
    lasthandle,      \* the handle arcan_egl_create_context returned last, -1 if none
    \* ---- the inbound queue by content, and the record of one tick
    queue,           \* the events waiting, oldest first
    arrived,         \* the events of the current tick in arrival order
    log,             \* what arcan_refresh did in the current tick, in order
    \* ---- segment enumeration (arcan_display_init) and the segment table
    epc,             \* position of arcan_display_init
    consoles,        \* the guest consoles by index: "G" graphical, "N" not
    nd,              \* the local `nd` of arcan_display_init
    prim,            \* the primary segment: "none" | "open" | "dropped"
    dpytab,          \* arcan_ctx.dpy and the memory that follows it
    n_dpy,           \* arcan_ctx.n_dpy
    attempted,       \* display indices a sub-segment was requested for
    failedAt,        \* display index whose binding failed, -1 if none did
    failkind,        \* how it failed: "none" | "rejected" | "transport" | "alloc"
    ledstate,        \* arcan_ctx.ledstate
    running,         \* runstate_is_running()
    idents           \* identification messages enqueued per slot by the last broadcast

pumpvars == <<pc, pending, ev, queue_flush, out, nsync, handled, runreq, sig,
              kbd_statetbl, hidden, update_interval, keyshadow, hintshadow>>
geomvars == <<seg_w, seg_h, dirty>>
blitvars == <<addr, seg_pitch, vidp, vbufc, mode, surface, lastop, segcalls,
              ptr, bpp, fmt, abufc, abuf_sz, context_mask, fault, fmtcheck, stale>>
glvars == <<live, lasthandle>>
ordvars == <<queue, arrived, log>>
enumvars == <<epc, consoles, nd, prim, dpytab, n_dpy, attempted, failedAt, failkind,
              ledstate, running, idents>>
vars == <<pumpvars, geomvars, blitvars, enumvars, glvars, ordvars>>

----------------------------------------------------------------------------
(* Bounds of the model. *)
MaxScan == 2     \* translated-key events carry scan codes 0..MaxScan
MaxQueue == 2    \* events the producer may have waiting at one time
MaxDim == 2      \* segment and surface widths and heights are 1..MaxDim
MaxCons == 5     \* the guest has 1..MaxCons consoles
MaxCtx == 3      \* GL contexts that exist at one time
MaxTex == 2      \* texture ids of a scanout are 1..MaxTex

(* Program constants. *)
TableSize == 256
ARCAN_DISPLAY_LIMIT == 4
LongInterval == 500
GUI_REFRESH_INTERVAL_DEFAULT == 30
MBTN_LEFT_IND == 1
MBTN_RIGHT_IND == 2
MBTN_MIDDLE_IND == 3
MBTN_WHEEL_UP_IND == 4
MBTN_WHEEL_DOWN_IND == 5
INPUT_BUTTON_LEFT == 0
INPUT_BUTTON_MIDDLE == 1
INPUT_BUTTON_RIGHT == 2
INPUT_BUTTON_WHEEL_UP == 3
INPUT_BUTTON_WHEEL_DOWN == 4
INPUT_AXIS_X == 0
INPUT_AXIS_Y == 1

----------------------------------------------------------------------------
(* Helpers. *)
Bit(v, b) == (v \div b) % 2 = 1
B2I(b) == IF b THEN 1 ELSE 0
RECURSIVE SetToSeq(_)
\* the members of a finite set of integers in increasing order
SetToSeq(S) ==
    IF S = {} THEN <<>>
    ELSE LET m == CHOOSE x \in S : \A y \in S : x <= y
         IN <<m>> \o SetToSeq(S \ {m})

(* Entries 0..29 of the translation table; the scan codes the model draws    *)
(* stay inside this range.  Entry 0 is not initialised and is therefore 0.   *)
xlate_lut(i) ==
    CASE i \in 1..28 -> i + 7
      [] i = 29 -> 5
      [] OTHER -> 0

----------------------------------------------------------------------------
(* Events of the inbound queue (arcan_event). *)
Event(cat, dk, dt, sub, sc, act, rel, av, k, iv0, iv2) ==
    [category |-> cat, devkind |-> dk, datatype |-> dt, subid |-> sub,
     scancode |-> sc, active |-> act, gotrel |-> rel, axisval |-> av,
     kind |-> k, iv0 |-> iv0, iv2 |-> iv2]

NoEvent == Event("NONE", "NONE", "NONE", 0, 0, 0, FALSE, 0, "NONE", 0, 0)

DevKinds == {"KEYBOARD", "MOUSE", "GAMEDEV"}
TranslatedEvents ==
    {Event("IO", dk, "TRANSLATED", 0, sc, act, FALSE, 0, "NONE", 0, 0) :
        dk \in DevKinds, sc \in 0..MaxScan, act \in {0, 1}}
DigitalEvents ==
    {Event("IO", dk, "DIGITAL", sub, 0, act, FALSE, 0, "NONE", 0, 0) :
        dk \in {"MOUSE", "GAMEDEV"}, sub \in 0..5, act \in {0, 1}}
AnalogEvents ==
    {Event("IO", dk, "ANALOG", sub, 0, 0, rel, 1, "NONE", 0, 0) :
        dk \in {"MOUSE", "GAMEDEV"}, sub \in {0, 1}, rel \in BOOLEAN}
TouchEvents ==
    {Event("IO", "MOUSE", "TOUCH", 0, 0, 0, FALSE, 0, "NONE", 0, 0)}
IOEvents == TranslatedEvents \cup DigitalEvents \cup AnalogEvents \cup TouchEvents

PlainKinds == {"EXIT", "NEWSEGMENT", "PAUSE", "UNPAUSE", "SETIODEV", "STORE",
               "RESTORE", "OUTPUTHINT", "DEVICE_NODE", "UNKNOWN"}
HintFlags == {0, 2, 4, 6, 128, 130, 132, 134}
TargetEvents ==
    {Event("TARGET", "NONE", "NONE", 0, 0, 0, FALSE, 0, k, 0, 0) : k \in PlainKinds}
    \cup {Event("TARGET", "NONE", "NONE", 0, 0, 0, FALSE, 0, "RESET", s, 0) : s \in 0..3}
    \cup {Event("TARGET", "NONE", "NONE", 0, 0, 0, FALSE, 0, "DISPLAYHINT", 0, f) :
             f \in HintFlags}
OtherEvents == {Event("EXTERNAL", "NONE", "NONE", 0, 0, 0, FALSE, 0, "NONE", 0, 0)}
Events == IOEvents \cup TargetEvents \cup OtherEvents

(* Virtual-input calls: <<operation, a, b, c, d>>. *)
KeyCall(code, down) == <<"key", code, down, 0, 0>>
BtnCall(btn, down) == <<"btn", btn, down, 0, 0>>
RelCall(axis, v) == <<"rel", axis, v, 0, 0>>
AbsCall(axis, v, lo, hi) == <<"abs", axis, v, lo, hi>>

----------------------------------------------------------------------------
(* reset_dpykbd: release every key the table holds as pressed, in index     *)
(* order, and clear its entry.  Yields the new table and the calls made.    *)
Pressed(tbl) == {i \in 0..(TableSize - 1) : tbl[i] # 0}

ReleaseCalls(tbl) ==
    LET order == SetToSeq(Pressed(tbl))
    IN [k \in 1..Len(order) |-> KeyCall(xlate_lut(order[k]), 0)]

\* mutant: the releases are sent but the entries are not cleared
reset_dpykbd_noclear(tbl) ==
    [tbl |-> tbl, calls |-> ReleaseCalls(tbl)]

reset_dpykbd(tbl) ==
    [tbl   |-> [i \in 0..(TableSize - 1) |-> 0],
     calls |-> ReleaseCalls(tbl)]

(* input_event: yields the return value, the new table and the calls made. *)
ButtonOf(subid) ==
    CASE subid = MBTN_LEFT_IND -> INPUT_BUTTON_LEFT
      [] subid = MBTN_MIDDLE_IND -> INPUT_BUTTON_MIDDLE
      [] subid = MBTN_RIGHT_IND -> INPUT_BUTTON_RIGHT
      [] subid = MBTN_WHEEL_UP_IND -> INPUT_BUTTON_WHEEL_UP
      [] subid = MBTN_WHEEL_DOWN_IND -> INPUT_BUTTON_WHEEL_DOWN
      [] OTHER -> -1

\* mutant: the key is forwarded but the table is not updated
translated_key_notrack(iev, tbl) ==
    [ret   |-> FALSE,
     tbl   |-> tbl,
     calls |-> <<KeyCall(xlate_lut(iev.scancode), B2I(iev.active # 0))>>]

\* mutant: the raw scan code is forwarded instead of the translated code
translated_key_raw(iev, tbl) ==
    [ret   |-> FALSE,
     tbl   |-> [tbl EXCEPT ![iev.scancode] = iev.active],
     calls |-> <<KeyCall(iev.scancode, B2I(iev.active # 0))>>]

(* The translated-key branch of input_event.  The branch has no return of   *)
(* its own: control reaches the final `return false`.                       *)
translated_key(iev, tbl) ==
    [ret   |-> FALSE,
     tbl   |-> [tbl EXCEPT ![iev.scancode] = iev.active],
     calls |-> <<KeyCall(xlate_lut(iev.scancode), B2I(iev.active # 0))>>]

input_event(iev, tbl, w, h) ==
    IF iev.devkind # "KEYBOARD" /\ iev.devkind # "MOUSE"
    THEN [ret |-> FALSE, tbl |-> tbl, calls |-> <<>>]
    ELSE IF iev.datatype = "TRANSLATED"
    THEN translated_key(iev, tbl)
    ELSE IF iev.datatype = "DIGITAL"
    THEN IF ButtonOf(iev.subid) = -1
         THEN [ret |-> FALSE, tbl |-> tbl, calls |-> <<>>]
         ELSE [ret |-> TRUE, tbl |-> tbl,
               calls |-> <<BtnCall(ButtonOf(iev.subid), B2I(iev.active # 0))>>]
    ELSE IF iev.datatype = "ANALOG"
    THEN LET did == IF iev.subid = 0 THEN INPUT_AXIS_X ELSE INPUT_AXIS_Y
             av == iev.axisval
         IN [ret |-> TRUE, tbl |-> tbl,
             calls |-> IF iev.gotrel
                       THEN <<RelCall(did, av)>>
                       ELSE <<AbsCall(did, av, 0, IF iev.subid = 0 THEN w ELSE h)>>]
    ELSE [ret |-> FALSE, tbl |-> tbl, calls |-> <<>>]

(* The display-hint branch of system_event: yields hidden, the listener's   *)
(* interval, the table and the calls made.                                  *)
HintFocusLost(iv) == Bit(iv, 4)

\* mutant: un-hiding clears the flag but does not restore the interval
display_hint_norestore(iv, hid, ival, tbl) ==
    IF Bit(iv, 128)
    THEN [hidden |-> hid, interval |-> ival, tbl |-> tbl, calls |-> <<>>]
    ELSE LET kbd == IF HintFocusLost(iv)
                    THEN reset_dpykbd(tbl)
                    ELSE [tbl |-> tbl, calls |-> <<>>]
         IN [hidden |-> Bit(iv, 2),
             interval |-> IF Bit(iv, 2) THEN LongInterval ELSE ival,
             tbl |-> kbd.tbl, calls |-> kbd.calls]

\* mutant: the reserved bit is not tested
display_hint_noescape(iv, hid, ival, tbl) ==
    LET kbd == IF HintFocusLost(iv)
               THEN reset_dpykbd(tbl)
               ELSE [tbl |-> tbl, calls |-> <<>>]
    IN [hidden |-> Bit(iv, 2),
        interval |-> IF Bit(iv, 2) THEN LongInterval ELSE GUI_REFRESH_INTERVAL_DEFAULT,
        tbl |-> kbd.tbl, calls |-> kbd.calls]

display_hint(iv, hid, ival, tbl) ==
    IF Bit(iv, 128)
    THEN [hidden |-> hid, interval |-> ival, tbl |-> tbl, calls |-> <<>>]
    ELSE LET vis == IF Bit(iv, 2)
                    THEN [hidden |-> TRUE, interval |-> LongInterval]
                    ELSE IF hid
                    THEN [hidden |-> FALSE, interval |-> GUI_REFRESH_INTERVAL_DEFAULT]
                    ELSE [hidden |-> hid, interval |-> ival]
             kbd == IF HintFocusLost(iv)
                    THEN reset_dpykbd(tbl)
                    ELSE [tbl |-> tbl, calls |-> <<>>]
         IN [hidden |-> vis.hidden, interval |-> vis.interval,
             tbl |-> kbd.tbl, calls |-> kbd.calls]

(* The reset branch of system_event: sub-kinds 0 and 1 request a shutdown   *)
(* with the guest-reset cause, every sub-kind marks the whole frame dirty   *)
(* and signals it.                                                          *)
\* mutant: only the sub-kinds that reach the guest force the frame
reset_command_guestonly(iv0, w, h, drt) ==
    [runreq |-> IF iv0 \in {0, 1} THEN "shutdown:GUEST_RESET" ELSE "none",
     dirty  |-> IF iv0 \in {0, 1} THEN <<0, 0, w, h>> ELSE drt,
     sig    |-> IF iv0 \in {0, 1} THEN "SIGVID" ELSE "none"]

reset_command(iv0, w, h, drt) ==
    [runreq |-> IF iv0 \in {0, 1} THEN "shutdown:GUEST_RESET" ELSE "none",
     dirty  |-> <<0, 0, w, h>>,
     sig    |-> "SIGVID"]

(* The branches of system_event that hold no statement (new segment, pause, *)
(* unpause, set-IO-device, store, restore, output hint, device node) and    *)
(* its default branch: `same` is the segment as the handler found it.       *)
\* mutant: a pause request resends the frame
passive_command_pause(k, same) ==
    IF k = "PAUSE" THEN [same EXCEPT !.sig = "SIGVID"] ELSE same

passive_command(k, same) == same

(* system_event: yields every field of the segment the handler may touch.  *)
system_event(iev, hid, ival, tbl, w, h, drt) ==
    LET same == [hidden |-> hid, interval |-> ival, tbl |-> tbl, calls |-> <<>>,
                 runreq |-> "none", dirty |-> drt, sig |-> "none"]
    IN CASE iev.kind = "EXIT" ->
              [same EXCEPT !.runreq = "shutdown:HOST_UI"]
         [] iev.kind = "RESET" ->
              LET r == reset_command(iev.iv0, w, h, drt)
              IN [same EXCEPT !.runreq = r.runreq, !.dirty = r.dirty, !.sig = r.sig]
         [] iev.kind = "DISPLAYHINT" ->
              LET r == display_hint(iev.iv2, hid, ival, tbl)
              IN [same EXCEPT !.hidden = r.hidden, !.interval = r.interval,
                              !.tbl = r.tbl, !.calls = r.calls]
         [] OTHER -> passive_command(iev.kind, same)

----------------------------------------------------------------------------
(* Surfaces of the guest console (DisplaySurface) and pixel access.         *)
(* A surface has a width and a height in pixels and a row stride in bytes   *)
(* that may exceed 4 * width.                                               *)
(* A surface has a pixman format whose first field is its bits per pixel.   *)
Formats == {"b8g8r8x8", "b8g8r8a8", "x8r8g8b8", "a8r8g8b8", "x8b8g8r8",
            "a8b8g8r8", "r8g8b8", "r5g6b5", "x1r5g5b5", "a8", "yuy2", "yv12"}

surface_bits_per_pixel(f) ==
    CASE f \in {"b8g8r8x8", "b8g8r8a8", "x8r8g8b8", "a8r8g8b8", "x8b8g8r8",
                "a8b8g8r8"} -> 32
      [] f = "r8g8b8" -> 24
      [] f \in {"r5g6b5", "x1r5g5b5", "yuy2"} -> 16
      [] f = "yv12" -> 12
      [] f = "a8" -> 8
      [] OTHER -> 0

Surface(w, h, pad, f) ==
    [w |-> w, h |-> h, stride |-> (w * surface_bits_per_pixel(f)) \div 8 + 4 * pad,
     format |-> f]

\* the surfaces of a console in the format the repack loop expects
Surfaces ==
    {Surface(w, h, pad, "x8r8g8b8") : w \in 1..MaxDim, h \in 1..MaxDim, pad \in {0, 1}}
NoSurface == [w |-> 0, h |-> 0, stride |-> 0, format |-> "none"]

\* the byte at offset k of a surface's pixel data
SrcByte(k) == (k * 37 + 11) % 256

\* SHMIF_RGBA: the destination's native encoding of one pixel, a 32-bit
\* word given by its four bytes in memory order
SHMIF_RGBA(r, g, b, a) == <<r, g, b, a>>
BlankPixel == <<0, 0, 0, 0>>

Op(name, x, y, w, h) == [op |-> name, x |-> x, y |-> y, w |-> w, h |-> h]
NoOp == Op("none", 0, 0, 0, 0)

\* mutant: the requested region is kept whatever the buffer count
EffectiveRegion_keep(vb, x, y, w, h, dw, dh) ==
    [x |-> x, y |-> y, w |-> w, h |-> h]

(* The region arcan_update works on: the whole frame when vbufc > 1.        *)
EffectiveRegion(vb, x, y, w, h, dw, dh) ==
    IF vb > 1
    THEN [x |-> 0, y |-> 0, w |-> dw, h |-> dh]
    ELSE [x |-> x, y |-> y, w |-> w, h |-> h]

(* The repack loop of arcan_update on region r.  dp starts at row r.y,      *)
(* column 0 of the destination; sp starts at row r.y, column r.x of the     *)
(* source.  Pixel cx of row cy is read at sp[cx*4 + 0..2] and written at    *)
(* dp[cx].  Yields the new pixel buffer.                                    *)
Repack(buf, pitch, srf, r) ==
    [k \in DOMAIN buf |->
        LET row == k \div pitch
            col == k % pitch
        IN IF row >= r.y /\ row < r.y + r.h /\ col < r.w
           THEN LET sp == row * srf.stride + r.x * 4 + col * 4
                IN SHMIF_RGBA(SrcByte(sp + 2), SrcByte(sp + 1), SrcByte(sp), 255)
           ELSE buf[k]]

----------------------------------------------------------------------------
(* The event pump of one segment.                                           *)
ZeroTable == [i \in 0..(TableSize - 1) |-> 0]

InitPump ==
    /\ pc = "idle"
    /\ pending = 0
    /\ ev = NoEvent
    /\ queue_flush = FALSE
    /\ out = <<>>
    /\ nsync = 0
    /\ handled = FALSE
    /\ runreq = "none"
    /\ sig = "none"
    /\ kbd_statetbl = ZeroTable
    /\ hidden = FALSE
    /\ update_interval = GUI_REFRESH_INTERVAL_DEFAULT
    /\ keyshadow = ZeroTable
    /\ hintshadow = FALSE
    /\ queue = <<>>
    /\ arrived = <<>>
    /\ log = <<>>

(* The fields of dpy_state and arcan_ctx that the static initialisation     *)
(* leaves at zero or at their default.                                      *)
NoCheck == [format |-> "none", ret |-> FALSE]

InitCache ==
    /\ ptr = NoSurface
    /\ bpp = 0
    /\ fmt = "none"
    /\ abufc = 8
    /\ abuf_sz = 4096
    /\ context_mask = 0
    /\ fault = FALSE
    /\ fmtcheck = NoCheck
    /\ stale = FALSE
    /\ live = <<>>
    /\ lasthandle = -1

(* A connected segment of a fixed geometry, before any surface switch.      *)
InitSegment ==
    /\ seg_w = MaxDim + 1
    /\ seg_h = MaxDim
    /\ dirty = <<0, 0, 0, 0>>
    /\ addr = TRUE
    /\ seg_pitch = seg_w
    /\ vidp = [k \in 0..(seg_pitch * seg_h - 1) |-> BlankPixel]
    /\ vbufc = 1
    /\ mode = "SHARE"
    /\ surface = NoSurface
    /\ lastop = NoOp
    /\ segcalls = <<>>
    /\ InitCache

(* The segment table after arcan_display_init bound console 0 to the        *)
(* primary segment and found no further graphical console.                  *)
Slots == 0..((IF MaxCons > ARCAN_DISPLAY_LIMIT THEN MaxCons ELSE ARCAN_DISPLAY_LIMIT) - 1)
TableSlots == 0..(ARCAN_DISPLAY_LIMIT - 1)
FreeSlot == [index |-> 0, seg |-> "none", registered |-> FALSE]

InitTable ==
    /\ epc = "done"
    /\ consoles = <<"G">>
    /\ nd = 1
    /\ prim = "open"
    /\ dpytab = [i \in Slots |-> IF i = 0
                                 THEN [index |-> 0, seg |-> "prim", registered |-> TRUE]
                                 ELSE FreeSlot]
    /\ n_dpy = 1
    /\ attempted = {}
    /\ failedAt = -1
    /\ failkind = "none"
    /\ ledstate = 0
    /\ running = TRUE
    /\ idents = [i \in TableSlots |-> <<>>]

Init ==
    /\ InitPump
    /\ InitSegment
    /\ InitTable

(* The compositor queues one more event.  The steps of the pump are given   *)
(* without the content of the queue first; Enqueue, RefreshBegin, Poll and  *)
(* RefreshEnd are these steps with the content read when an event is        *)
(* polled.                                                                  *)
shmif_arrive ==
    /\ pending < MaxQueue
    /\ pending' = pending + 1
    /\ UNCHANGED <<pc, ev, queue_flush, out, nsync, handled, runreq, sig,
                   kbd_statetbl, hidden, update_interval, keyshadow, hintshadow>>
    /\ UNCHANGED <<geomvars, blitvars, enumvars, glvars>>

Enqueue ==
    /\ shmif_arrive
    /\ UNCHANGED ordvars

(* arcan_refresh is entered: the locals are initialised.                    *)
refresh_enter ==
    /\ pc = "idle"
    /\ pc' = "poll"
    /\ queue_flush' = FALSE
    /\ nsync' = 0
    /\ handled' = FALSE
    /\ ev' = NoEvent
    /\ out' = <<>>
    /\ runreq' = "none"
    /\ sig' = "none"
    /\ UNCHANGED <<pending, kbd_statetbl, hidden, update_interval, keyshadow, hintshadow>>
    /\ UNCHANGED <<geomvars, blitvars, enumvars, glvars>>

RefreshBegin ==
    /\ refresh_enter
    /\ UNCHANGED ordvars

(* What the history variables record of a dispatched event.                 *)
IsKeyEvent(e) ==
    /\ e.category = "IO"
    /\ e.datatype = "TRANSLATED"
    /\ e.devkind \in {"KEYBOARD", "MOUSE"}

IsFocusLoss(e) ==
    /\ e.category = "TARGET"
    /\ e.kind = "DISPLAYHINT"
    /\ Bit(e.iv2, 4)
    /\ ~Bit(e.iv2, 128)

IsLiveHint(e) ==
    /\ e.category = "TARGET"
    /\ e.kind = "DISPLAYHINT"
    /\ ~Bit(e.iv2, 128)

Record(e) ==
    /\ keyshadow' = IF IsKeyEvent(e)
                    THEN [keyshadow EXCEPT ![e.scancode] = e.active]
                    ELSE IF IsFocusLoss(e) THEN ZeroTable ELSE keyshadow
    /\ hintshadow' = IF IsLiveHint(e) THEN Bit(e.iv2, 2) ELSE hintshadow

(* One iteration of the loop: arcan_shmif_poll yields an event, which is    *)
(* dispatched on its category.                                              *)
refresh_dispatch(e) ==
    /\ pc = "poll"
    /\ pending > 0
    /\ pending' = pending - 1
    /\ ev' = e
    /\ Record(e)
    /\ IF e.category = "IO"
       THEN LET r == input_event(e, kbd_statetbl, seg_w, seg_h)
            IN /\ queue_flush' = (queue_flush \/ r.ret)
               /\ kbd_statetbl' = r.tbl
               /\ out' = r.calls
               /\ handled' = (handled \/ r.calls # <<>>)
               /\ runreq' = "none"
               /\ sig' = "none"
               /\ UNCHANGED <<hidden, update_interval, dirty>>
       ELSE IF e.category = "TARGET"
       THEN LET r == system_event(e, hidden, update_interval, kbd_statetbl,
                                  seg_w, seg_h, dirty)
            IN /\ hidden' = r.hidden
               /\ update_interval' = r.interval
               /\ kbd_statetbl' = r.tbl
               /\ out' = r.calls
               /\ runreq' = r.runreq
               /\ dirty' = r.dirty
               /\ sig' = r.sig
               /\ UNCHANGED <<queue_flush, handled>>
       ELSE /\ out' = <<>>
            /\ runreq' = "none"
            /\ sig' = "none"
            /\ UNCHANGED <<queue_flush, handled, kbd_statetbl, hidden,
                           update_interval, dirty>>
    /\ UNCHANGED <<pc, nsync, seg_w, seg_h, blitvars, enumvars, glvars>>

Poll(e) ==
    /\ refresh_dispatch(e)
    /\ UNCHANGED ordvars

\* mutant: the loop is left after one event at most
RefreshEnd_early ==
    /\ pc = "poll"
    /\ ev # NoEvent \/ pending = 0
    /\ pc' = "idle"
    /\ nsync' = IF queue_flush THEN nsync + 1 ELSE nsync
    /\ UNCHANGED <<pending, ev, queue_flush, out, handled, runreq, sig,
                   kbd_statetbl, hidden, update_interval, keyshadow, hintshadow>>
    /\ UNCHANGED <<geomvars, blitvars, enumvars, glvars>>
    /\ UNCHANGED ordvars

(* arcan_shmif_poll finds the queue empty: the loop ends, the input queue   *)
(* is synchronised if queue_flush is set, and arcan_refresh returns.        *)
refresh_leave ==
    /\ pc = "poll"
    /\ pending = 0
    /\ pc' = "idle"
    /\ nsync' = IF queue_flush THEN nsync + 1 ELSE nsync
    /\ UNCHANGED <<pending, ev, queue_flush, out, handled, runreq, sig,
                   kbd_statetbl, hidden, update_interval, keyshadow, hintshadow>>
    /\ UNCHANGED <<geomvars, blitvars, enumvars, glvars>>

RefreshEnd ==
    /\ refresh_leave
    /\ UNCHANGED ordvars

PollAny == \E e \in Events : Poll(e)

Next ==
    \/ Enqueue
    \/ RefreshBegin
    \/ PollAny
    \/ RefreshEnd

Spec == Init /\ [][Next]_vars

----------------------------------------------------------------------------
(* Properties of the event pump.                                            *)

\* a step that dispatched one polled event (the only step that shortens the queue)
DispatchStep == pending' = pending - 1

\* the calls are exactly one release per index of S, carrying its translated code
ReleasesExactly(calls, S) ==
    /\ Len(calls) = Cardinality(S)
    /\ \A i \in S : \E k \in 1..Len(calls) : calls[k] = KeyCall(xlate_lut(i), 0)
    /\ \A k \in 1..Len(calls) : \E i \in S : calls[k] = KeyCall(xlate_lut(i), 0)

(* C1: a tick in which a device event reached the virtual input ends with   *)
(* exactly one synchronisation of the input queue, whatever the kind of the *)
(* device event (key, button or axis).                                      *)
C1_HandledTickSyncs ==
    (pc = "idle" /\ handled) => nsync = 1

(* C4: a pressed-key reset emits exactly one release per pressed index,     *)
(* carrying its translated code, leaves the table all false, and a reset    *)
(* that directly follows a reset emits nothing.                             *)
C4_ResetExhaustiveIdempotent ==
    [][(DispatchStep /\ IsFocusLoss(ev')) =>
          /\ ReleasesExactly(out', Pressed(kbd_statetbl))
          /\ Pressed(kbd_statetbl') = {}
          /\ (IsFocusLoss(ev) => out' = <<>>)]_vars

C4_Witness ==
    /\ IsFocusLoss(ev)
    /\ Len(out) = 2
    /\ out[1] # out[2]
    /\ Pressed(kbd_statetbl) = {}

(* C5: entry i of the pressed-key table is true exactly when the last key   *)
(* event for scan code i since the last focus-loss reset was a press; a     *)
(* focus-loss reset leaves every entry false and emits one release per      *)
(* entry that was true.                                                     *)
C5_TableReflectsKeys ==
    /\ [](\A i \in 0..(TableSize - 1) : (kbd_statetbl[i] # 0) <=> (keyshadow[i] # 0))
    /\ [][(DispatchStep /\ IsFocusLoss(ev')) =>
             /\ Pressed(kbd_statetbl') = {}
             /\ ReleasesExactly(out', Pressed(kbd_statetbl))]_vars

C5_Witness ==
    /\ IsKeyEvent(ev)
    /\ ev.active = 0
    /\ kbd_statetbl[ev.scancode] = 0
    /\ Cardinality(Pressed(kbd_statetbl)) = 2

(* C6: a key event of a keyboard or mouse device is forwarded as exactly    *)
(* one virtual key event with the translated code and the same pressed      *)
(* flag, at the moment it is dispatched; a press directly followed by the   *)
(* release of the same scan code gives a press call then a release call of  *)
(* the same code, and the table entry ends false.                           *)
C6_KeyForwarded ==
    [][(DispatchStep /\ IsKeyEvent(ev')) =>
          /\ out' = <<KeyCall(xlate_lut(ev'.scancode), ev'.active)>>
          /\ (kbd_statetbl'[ev'.scancode] # 0) <=> (ev'.active # 0)
          /\ (IsKeyEvent(ev) /\ ev.scancode = ev'.scancode
                 /\ ev.active = 1 /\ ev'.active = 0) =>
                /\ out = <<KeyCall(xlate_lut(ev.scancode), 1)>>
                /\ out' = <<KeyCall(xlate_lut(ev.scancode), 0)>>
                /\ kbd_statetbl'[ev.scancode] = 0]_vars

C6_Witness ==
    /\ IsKeyEvent(ev)
    /\ ev.scancode = 1
    /\ ev.active = 0
    /\ out = <<KeyCall(8, 0)>>
    /\ kbd_statetbl[1] = 0

(* C7: hidden is the invisible bit of the last display hint whose reserved  *)
(* bit was clear (false if there was none), and the refresh interval is     *)
(* the long one exactly when hidden.                                        *)
C7_HiddenFollowsHint ==
    /\ hidden = hintshadow
    /\ update_interval = IF hidden THEN LongInterval ELSE GUI_REFRESH_INTERVAL_DEFAULT

C7_Witness ==
    /\ IsLiveHint(ev)
    /\ Bit(ev.iv2, 2)
    /\ hidden
    /\ update_interval = LongInterval

(* C8: a display hint with the reserved bit (128) set changes neither       *)
(* hidden, nor the refresh interval, nor the pressed-key table, and emits   *)
(* no key release.                                                          *)
IsReservedHint(e) ==
    /\ e.category = "TARGET"
    /\ e.kind = "DISPLAYHINT"
    /\ Bit(e.iv2, 128)

C8_ReservedHintInert ==
    [][(DispatchStep /\ IsReservedHint(ev')) =>
          /\ UNCHANGED <<hidden, update_interval, kbd_statetbl>>
          /\ out' = <<>>]_vars

C8_Witness ==
    /\ IsReservedHint(ev)
    /\ ev.iv2 = 134
    /\ ~hidden
    /\ Pressed(kbd_statetbl) # {}

(* C11: the dispatch of a Reset event of any sub-kind leaves the dirty       *)
(* rectangle at the full frame (0,0,w,h) and has signalled a new video      *)
(* frame, whatever the rectangle was, before the next event is polled.      *)
IsReset(e) ==
    /\ e.category = "TARGET"
    /\ e.kind = "RESET"

C11_ResetForcesFullFrame ==
    [][(DispatchStep /\ IsReset(ev')) =>
          /\ dirty' = <<0, 0, seg_w, seg_h>>
          /\ sig' = "SIGVID"]_vars

C11_Witness ==
    /\ IsReset(ev)
    /\ ev.iv0 = 3
    /\ pc = "poll"
    /\ pending > 0
    /\ dirty = <<0, 0, seg_w, seg_h>>
    /\ dirty # <<0, 0, 0, 0>>
    /\ sig = "SIGVID"

(* C12: a Reset event of sub-kind 0 or 1 issues a reset request and no      *)
(* shutdown request, sub-kinds 2 and 3 issue no request, and a shutdown     *)
(* request is issued by an Exit event only, with the host-UI cause.         *)
IsShutdownRequest(r) == r \in {"shutdown:HOST_UI", "shutdown:GUEST_RESET"}
IsResetRequest(r) == r \in {"reset:HOST_UI", "reset:GUEST_RESET"}

C12_RunStateRequests ==
    [][DispatchStep =>
          /\ (IsReset(ev') /\ ev'.iv0 \in {0, 1}) => IsResetRequest(runreq')
          /\ (IsReset(ev') /\ ev'.iv0 \in {2, 3}) => runreq' = "none"
          /\ IsShutdownRequest(runreq') =>
                /\ ev'.category = "TARGET"
                /\ ev'.kind = "EXIT"
                /\ runreq' = "shutdown:HOST_UI"]_vars

(* C19: the dispatch of a system event of kind store, restore, new segment, *)
(* pause, unpause, output hint, device node, set-IO-device or of an unknown *)
(* kind, or of an event that is neither a device nor a system event, leaves *)
(* blit mode, cached surface, dirty rectangle, hidden flag, pressed-key     *)
(* table and refresh interval unchanged, makes no virtual-input call, sends *)
(* no frame signal, issues no run-state request, and the pump goes on.      *)
PassiveKinds == PlainKinds \ {"EXIT"}

IsPassive(e) ==
    \/ e.category = "TARGET" /\ e.kind \in PassiveKinds
    \/ e.category \notin {"IO", "TARGET"}

C19_PassiveEventsInert ==
    [][(DispatchStep /\ IsPassive(ev')) =>
          /\ UNCHANGED <<mode, surface, dirty, hidden, kbd_statetbl, update_interval>>
          /\ out' = <<>>
          /\ sig' = "none"
          /\ runreq' = "none"
          /\ pc' = "poll"]_vars

C19_Witness ==
    /\ IsPassive(ev)
    /\ ev.kind = "STORE"
    /\ hidden
    /\ Pressed(kbd_statetbl) # {}
    /\ dirty = <<0, 0, seg_w, seg_h>>
    /\ out = <<>>
    /\ sig = "none"

(* The event pump while the compositor queues nothing during a tick: events *)
(* arrive between two calls of arcan_refresh only.  The thread that runs    *)
(* arcan_refresh keeps running, so the loop takes its next step.            *)
EnqueueIdle ==
    /\ pc = "idle"
    /\ Enqueue

NextQuiet ==
    \/ EnqueueIdle
    \/ RefreshBegin
    \/ PollAny
    \/ RefreshEnd

SpecQuiet == Init /\ [][NextQuiet]_vars /\ WF_vars(PollAny) /\ WF_vars(RefreshEnd)

(* C20: with nothing queued during the tick, arcan_refresh returns; it      *)
(* returns with the queue empty; and every event that leaves the queue      *)
(* leaves it alone, inside the loop, as the event that step dispatches.     *)
C20_PumpDrainsAndReturns ==
    /\ (pc = "poll") ~> (pc = "idle")
    /\ [][(pc = "poll" /\ pc' = "idle") => pending' = 0]_vars
    /\ [][pending' < pending =>
             /\ pc = "poll"
             /\ pending' = pending - 1
             /\ ev' \in Events]_vars

C20_Witness ==
    /\ pc = "idle"
    /\ pending = 0
    /\ ev \in Events
    /\ nsync = 1

----------------------------------------------------------------------------
(* The pixel path of one segment.                                           *)
VbufCounts == {1, 2, 3}
AbufCounts == {8, 4}
AbufSizes == {4096, 2048}

InitBlit ==
    /\ InitPump
    /\ seg_w \in 1..MaxDim
    /\ seg_h \in 1..MaxDim
    /\ dirty = <<0, 0, 0, 0>>
    /\ addr \in BOOLEAN
    /\ seg_pitch = seg_w
    /\ vidp = [k \in 0..(seg_pitch * seg_h - 1) |-> BlankPixel]
    /\ vbufc \in VbufCounts
    /\ mode = "SHARE"
    /\ surface = NoSurface
    /\ lastop = NoOp
    /\ segcalls = <<>>
    /\ InitCache
    /\ InitTable

(* What surface_width and surface_height yield for the argument of         *)
(* arcan_switch.  For a surface, its size.  For NULL the two read through a *)
(* null pointer: the access stops the process, or it yields whatever the    *)
(* address holds.                                                           *)
surface_dims(srf) ==
    IF srf = NoSurface
    THEN {[trap |-> TRUE, w |-> 0, h |-> 0]}
         \cup {[trap |-> FALSE, w |-> w, h |-> h] : w \in 1..MaxDim, h \in 1..MaxDim}
    ELSE {[trap |-> FALSE, w |-> srf.w, h |-> srf.h]}

LockCall == <<"lock">>
UnlockCall == <<"unlock">>
ResizeCall(w, h, vb, ab, asz) == <<"resize", w, h, vb, ab, asz>>
SignalCall == <<"signal", "SIGVID">>
ExtSignalCall(tex_id) == <<"shmifext_signal", "SIGVID", tex_id>>

(* arcan_switch.  A connected segment is locked, resized to the size d read *)
(* from the new surface with the buffering configuration, and unlocked; the *)
(* resize gives the segment the requested size, a pitch of its choice and a *)
(* fresh pixel buffer.  Then a surface that is not NULL is cached with its  *)
(* data pointer, depth and format, and the mode becomes REPACK.             *)
arcan_switch(srf, pitch, d) ==
    /\ ~fault
    /\ d \in surface_dims(srf)
    /\ IF addr /\ d.trap
       THEN \* stopped inside the locked section, before the resize is called
            /\ pitch = seg_pitch
            /\ fault' = TRUE
            /\ segcalls' = <<LockCall>>
            /\ UNCHANGED <<seg_w, seg_h, seg_pitch, vidp, surface, ptr, bpp, fmt, mode, stale>>
       ELSE /\ IF addr
               THEN /\ pitch >= d.w
                    /\ seg_w' = d.w
                    /\ seg_h' = d.h
                    /\ seg_pitch' = pitch
                    /\ vidp' = [k \in 0..(pitch * d.h - 1) |-> BlankPixel]
                    /\ segcalls' = <<LockCall,
                                     ResizeCall(d.w, d.h, vbufc, abufc, abuf_sz),
                                     UnlockCall>>
               ELSE /\ pitch = seg_pitch
                    /\ d.w = srf.w /\ d.h = srf.h
                    /\ segcalls' = <<>>
                    /\ UNCHANGED <<seg_w, seg_h, seg_pitch, vidp>>
            /\ IF srf # NoSurface
               THEN /\ ptr' = srf
                    /\ bpp' = surface_bits_per_pixel(srf.format)
                    /\ fmt' = srf.format
                    /\ surface' = srf
                    /\ mode' = "REPACK"
               ELSE UNCHANGED <<ptr, bpp, fmt, surface, mode>>
            /\ stale' = (srf = NoSurface /\ surface # NoSurface)
            /\ UNCHANGED fault
    /\ lastop' = Op("switch", 0, 0, srf.w, srf.h)
    /\ UNCHANGED <<dirty, addr, vbufc, abufc, abuf_sz, context_mask, fmtcheck>>
    /\ UNCHANGED <<pumpvars, enumvars, glvars, ordvars>>

(* arcan_update on a connected segment.  The console asks for a region      *)
(* inside the current surface, or inside the segment while no surface is    *)
(* cached.                                                                  *)
arcan_update(x, y, w, h) ==
    /\ ~fault
    /\ addr
    /\ LET bw == IF surface = NoSurface THEN seg_w ELSE surface.w
           bh == IF surface = NoSurface THEN seg_h ELSE surface.h
       IN x + w <= bw /\ y + h <= bh
    /\ LET r == EffectiveRegion(vbufc, x, y, w, h, seg_w, seg_h)
       IN /\ vidp' = IF mode \in {"DIRECT", "REPACK"}
                     THEN Repack(vidp, seg_pitch, surface, r)
                     ELSE vidp
          /\ dirty' = <<r.x, r.y, r.x + r.w, r.y + r.h>>
    /\ sig' = "SIGVID"
    /\ segcalls' = <<SignalCall>>
    /\ lastop' = Op("update", x, y, w, h)
    /\ UNCHANGED <<seg_w, seg_h, addr, seg_pitch, vbufc, mode, surface, enumvars>>
    /\ UNCHANGED <<ptr, bpp, fmt, abufc, abuf_sz, context_mask, fault, fmtcheck, stale>>
    /\ UNCHANGED <<pc, pending, ev, queue_flush, out, nsync, handled, runreq,
                   kbd_statetbl, hidden, update_interval, keyshadow, hintshadow>>
    /\ UNCHANGED <<glvars, ordvars>>

SwitchAny ==
    \E srf \in Surfaces, pitch \in 1..(MaxDim + 1) :
        /\ pitch <= srf.w + 1
        /\ \E d \in surface_dims(srf) : arcan_switch(srf, pitch, d)

UpdateAny ==
    \E x \in 0..(MaxDim - 1), y \in 0..(MaxDim - 1), w \in 1..MaxDim, h \in 1..MaxDim :
        arcan_update(x, y, w, h)

NextBlit ==
    \/ SwitchAny
    \/ UpdateAny

SpecBlit == InitBlit /\ [][NextBlit]_vars

----------------------------------------------------------------------------
(* Properties of the pixel path.                                            *)

\* what the destination pixel (px, py) must hold after a repack of surface srf:
\* the source pixel's bytes are blue, green, red, padding
Expected(srf, px, py) ==
    LET at == py * srf.stride + px * 4
    IN SHMIF_RGBA(SrcByte(at + 2), SrcByte(at + 1), SrcByte(at), 255)

InRegion(r, px, py) ==
    /\ r.x <= px /\ px < r.x + r.w
    /\ r.y <= py /\ py < r.y + r.h

\* a step of arcan_update
UpdateStep == lastop'.op = "update"

(* C2: with more than one video buffer, every arcan_update, whatever the    *)
(* region asked for, records the whole frame (0,0,w,h) as dirty and, in a   *)
(* mode that copies pixels, fills the whole frame from the surface.         *)
C2_FullFrameWhenMultiBuffered ==
    [][(UpdateStep /\ vbufc > 1) =>
          /\ dirty' = <<0, 0, seg_w, seg_h>>
          /\ sig' = "SIGVID"
          /\ mode \in {"DIRECT", "REPACK"} =>
                \A px \in 0..(seg_w - 1), py \in 0..(seg_h - 1) :
                    vidp'[py * seg_pitch + px] = Expected(surface, px, py)]_vars

C2_Witness ==
    /\ lastop = Op("update", 1, 0, 1, 1)
    /\ vbufc > 1
    /\ mode = "REPACK"
    /\ seg_w = 2 /\ seg_h = 2
    /\ dirty = <<0, 0, 2, 2>>
    /\ vidp[seg_pitch + 1] = Expected(surface, 1, 1)

(* C3: in REPACK mode arcan_update writes, for every pixel (px, py) of the  *)
(* region it works on, destination pixel (px, py) = the encoding of source  *)
(* pixel (px, py), and leaves every other destination pixel unchanged, for  *)
(* regions with x > 0 as for x = 0.                                         *)
C3_RepackRegion ==
    [][(UpdateStep /\ mode = "REPACK") =>
          LET r == EffectiveRegion(vbufc, lastop'.x, lastop'.y, lastop'.w, lastop'.h,
                                   seg_w, seg_h)
          IN \A px \in 0..(seg_pitch - 1), py \in 0..(seg_h - 1) :
                vidp'[py * seg_pitch + px] =
                    IF InRegion(r, px, py)
                    THEN Expected(surface, px, py)
                    ELSE vidp[py * seg_pitch + px]]_vars

----------------------------------------------------------------------------
(* The display callbacks of one segment.                                    *)

(* The surfaces a console may hand over: 32-bit and 16-bit ones.            *)
SegSurfaces ==
    {Surface(w, h, 0, f) : w \in 1..MaxDim, h \in 1..MaxDim, f \in {"x8r8g8b8", "r5g6b5"}}

ResetEvents ==
    {Event("TARGET", "NONE", "NONE", 0, 0, 0, FALSE, 0, "RESET", s, 0) : s \in 0..3}

(* The configurations the segment starts from: video-buffer count,          *)
(* audio-buffer count and context mask (the defaults with no GL context, or *)
(* counts from the connection arguments with one GL context created).       *)
SegConfigs == {<<1, 8, 0>>, <<2, 4, 1>>}

(* A segment, connected or not, after arcan_display_init, before any        *)
(* surface switch.                                                          *)
InitSeg ==
    /\ InitPump
    /\ seg_w = MaxDim
    /\ seg_h = MaxDim
    /\ dirty = <<0, 0, 0, 0>>
    /\ addr \in BOOLEAN
    /\ seg_pitch = seg_w
    /\ vidp = [k \in 0..(seg_pitch * seg_h - 1) |-> BlankPixel]
    /\ \E c \in SegConfigs : vbufc = c[1] /\ abufc = c[2] /\ context_mask = c[3]
    /\ mode = "SHARE"
    /\ surface = NoSurface
    /\ lastop = NoOp
    /\ segcalls = <<>>
    /\ ptr = NoSurface
    /\ bpp = 0
    /\ fmt = "none"
    /\ abuf_sz = 4096
    /\ fault = FALSE
    /\ fmtcheck = NoCheck
    /\ stale = FALSE
    /\ live = (IF context_mask = 0 THEN <<>> ELSE <<0>>)
    /\ lasthandle = (IF context_mask = 0 THEN -1 ELSE 0)
    /\ InitTable

(* arcan_gl_scanout_texture: the rectangle of the scanout becomes the dirty *)
(* rectangle; the frame is signalled when a GL context exists.              *)
arcan_gl_scanout_texture(tex_id, x, y, w, h) ==
    /\ ~fault
    /\ dirty' = <<x, y, x + w, y + h>>
    /\ sig' = IF context_mask # 0 THEN "SIGVID" ELSE "none"
    /\ segcalls' = IF context_mask # 0 THEN <<ExtSignalCall(tex_id)>> ELSE <<>>
    /\ lastop' = Op("scanout", x, y, w, h)
    /\ UNCHANGED <<seg_w, seg_h, addr, seg_pitch, vidp, vbufc, mode, surface, enumvars>>
    /\ UNCHANGED <<ptr, bpp, fmt, abufc, abuf_sz, context_mask, fault, fmtcheck, stale>>
    /\ UNCHANGED <<pc, pending, ev, queue_flush, out, nsync, handled, runreq,
                   kbd_statetbl, hidden, update_interval, keyshadow, hintshadow>>
    /\ UNCHANGED <<glvars, ordvars>>

(* One call of arcan_refresh on a connected segment whose queue holds the   *)
(* single event e: the locals are initialised, e is polled and handled by   *)
(* system_event, the queue is found empty and the function returns.         *)
RefreshOne(e) ==
    /\ ~fault
    /\ addr
    /\ pc = "idle"
    /\ pending = 0
    /\ e.category = "TARGET"
    /\ ev' = e
    /\ Record(e)
    /\ LET r == system_event(e, hidden, update_interval, kbd_statetbl,
                             seg_w, seg_h, dirty)
       IN /\ hidden' = r.hidden
          /\ update_interval' = r.interval
          /\ kbd_statetbl' = r.tbl
          /\ out' = r.calls
          /\ runreq' = r.runreq
          /\ dirty' = r.dirty
          /\ sig' = r.sig
          /\ segcalls' = IF r.sig = "SIGVID" THEN <<SignalCall>> ELSE <<>>
    /\ queue_flush' = FALSE
    /\ nsync' = 0
    /\ handled' = FALSE
    /\ lastop' = Op("refresh", 0, 0, 0, 0)
    /\ UNCHANGED <<glvars, ordvars>>
    /\ UNCHANGED <<pc, pending, seg_w, seg_h, enumvars>>
    /\ UNCHANGED <<addr, seg_pitch, vidp, vbufc, mode, surface>>
    /\ UNCHANGED <<ptr, bpp, fmt, abufc, abuf_sz, context_mask, fault, fmtcheck, stale>>

SegSwitchAny ==
    \E srf \in SegSurfaces \cup {NoSurface} :
        \E d \in surface_dims(srf) :
            arcan_switch(srf, IF addr /\ ~d.trap THEN d.w ELSE seg_pitch, d)

ScanoutAny ==
    \E tex_id \in 1..MaxTex, x \in 0..1, y \in 0..1, w \in 1..MaxDim, h \in 1..MaxDim :
        arcan_gl_scanout_texture(tex_id, x, y, w, h)

ResetAny == \E e \in ResetEvents : RefreshOne(e)

NextSeg ==
    \/ SegSwitchAny
    \/ UpdateAny
    \/ ScanoutAny
    \/ ResetAny

SpecSeg == InitSeg /\ [][NextSeg]_vars

----------------------------------------------------------------------------
(* Properties of the display callbacks.                                     *)

\* a step of arcan_switch
SwitchStep == lastop'.op = "switch"

Count(calls, name) == Cardinality({k \in 1..Len(calls) : calls[k][1] = name})

(* C13: arcan_switch on a connected segment makes exactly one lock, then    *)
(* exactly one resize with the new surface's width and height and the       *)
(* video-buffer count, audio-buffer count and audio-buffer size of the      *)
(* process, then exactly one unlock, and returns with the segment unlocked; *)
(* on a segment that is not connected it makes none of the three.           *)
C13_SwitchLocksResizesUnlocks ==
    [][SwitchStep =>
          IF addr
          THEN /\ segcalls' = <<LockCall,
                                ResizeCall(lastop'.w, lastop'.h, vbufc, abufc, abuf_sz),
                                UnlockCall>>
               /\ ~fault'
          ELSE segcalls' = <<>>]_vars

(* C14: arcan_switch with no surface on a connected segment makes the       *)
(* lock, resize, unlock sequence only, returns, and leaves the cached       *)
(* surface, depth, format and the blit mode unchanged; with a surface it    *)
(* caches the surface, its depth and its format and sets the mode REPACK.   *)
C14_NullSwitchOnlyResizes ==
    [][SwitchStep =>
          IF lastop'.w = 0
          THEN /\ addr =>
                    /\ Len(segcalls') = 3
                    /\ segcalls'[1] = LockCall
                    /\ segcalls'[2][1] = "resize"
                    /\ segcalls'[3] = UnlockCall
               /\ ~fault'
               /\ UNCHANGED <<surface, ptr, bpp, fmt, mode>>
          ELSE /\ surface'.w = lastop'.w /\ surface'.h = lastop'.h
               /\ ptr' = surface'
               /\ bpp' = surface_bits_per_pixel(surface'.format)
               /\ fmt' = surface'.format
               /\ mode' = "REPACK"]_vars

(* C15: the blit mode is SHARE only while a surface is cached whose format  *)
(* is the segment's own, and REPACK otherwise, in every state from the      *)
(* binding of the segment on; no arcan_update runs in SHARE mode on a       *)
(* segment without such a surface.                                          *)
NativeFormat == "a8b8g8r8"
FormatsIdentical == surface # NoSurface /\ fmt = NativeFormat

C15_BlitModeConsistent ==
    /\ [](~FormatsIdentical => mode = "REPACK")
    /\ [][(UpdateStep /\ mode = "SHARE") => FormatsIdentical]_vars

(* C16: the dirty rectangle of a connected segment lies within its geometry: *)
(* 0 <= x1 <= x2 <= w and 0 <= y1 <= y2 <= h.                                *)
C16_DirtyWithinGeometry ==
    addr =>
        /\ 0 <= dirty[1] /\ dirty[1] <= dirty[3] /\ dirty[3] <= seg_w
        /\ 0 <= dirty[2] /\ dirty[2] <= dirty[4] /\ dirty[4] <= seg_h

----------------------------------------------------------------------------
(* arcan_check_format.                                                      *)

\* mutant: every 32-bit format is accepted
arcan_check_format_depth(format) == surface_bits_per_pixel(format) = 32

arcan_check_format(format) ==
    \/ format = "b8g8r8x8"
    \/ format = "b8g8r8a8"
    \/ format = "x8r8g8b8"
    \/ format = "a8r8g8b8"

(* The console asks whether it may hand over surfaces of a format.          *)
CheckFormat(format) ==
    /\ ~fault
    /\ fmtcheck' = [format |-> format, ret |-> arcan_check_format(format)]
    /\ UNCHANGED <<addr, seg_pitch, vidp, vbufc, mode, surface, lastop, segcalls,
                   ptr, bpp, fmt, abufc, abuf_sz, context_mask, fault, stale>>
    /\ UNCHANGED <<pumpvars, geomvars, enumvars, glvars, ordvars>>

CheckFormatAny == \E format \in Formats : CheckFormat(format)

NextFmt ==
    \/ CheckFormatAny
    \/ SwitchAny

SpecFmt == InitBlit /\ [][NextFmt]_vars

(* C17: arcan_check_format answers true for the formats b8g8r8x8, b8g8r8a8, *)
(* x8r8g8b8 and a8r8g8b8 and false for every other format, whatever the     *)
(* state of the segment.                                                    *)
C17_CheckFormatFour ==
    fmtcheck.ret <=> fmtcheck.format \in {"b8g8r8x8", "b8g8r8a8", "x8r8g8b8", "a8r8g8b8"}

C17_Witness ==
    /\ fmtcheck = [format |-> "x8b8g8r8", ret |-> FALSE]
    /\ mode = "REPACK"
    /\ ~addr

----------------------------------------------------------------------------
(* Segment enumeration: arcan_display_init.                                 *)

(* update_display_titles: one identification message on every slot of the   *)
(* table whose segment has a pixel buffer.                                  *)
QEMU_SCROLL_LOCK_LED == 1
QEMU_NUM_LOCK_LED == 2
QEMU_CAPS_LOCK_LED == 4

Title(i, led, run) ==
    [index |-> i,
     leds  |-> (IF Bit(led, QEMU_SCROLL_LOCK_LED) THEN <<"S">> ELSE <<>>)
               \o (IF Bit(led, QEMU_NUM_LOCK_LED) THEN <<"N">> ELSE <<>>)
               \o (IF Bit(led, QEMU_CAPS_LOCK_LED) THEN <<"C">> ELSE <<>>),
     state |-> IF run THEN "Running" ELSE "Suspended"]

HasVidp(slot) == slot.seg \in {"prim", "sub"}

\* mutant: the test of the pixel buffer is left out
update_display_titles_all(tab, ids, led, run) ==
    [i \in TableSlots |-> Append(ids[i], Title(i, led, run))]

update_display_titles(tab, ids, led, run) ==
    [i \in TableSlots |->
        IF HasVidp(tab[i]) THEN Append(ids[i], Title(i, led, run)) ELSE ids[i]]

NoIdents == [i \in TableSlots |-> <<>>]

ConsoleLists == UNION {[1..n -> {"G", "N"}] : n \in 1..MaxCons}

(* The results of wait_for_subseg that arcan_display_init tells apart:      *)
(* -1 transport failure, 0 rejected, anything else granted.  The body of    *)
(* wait_for_subseg in this tree is a placeholder that answers 0; the three  *)
(* answers are kept as the outcomes of the request to the compositor.       *)
SubsegResults == {-1, 0, 1}

InitEnum ==
    /\ InitPump
    /\ InitSegment
    /\ epc = "open"
    /\ consoles \in ConsoleLists
    /\ nd = 0
    /\ prim = "none"
    /\ dpytab = [i \in Slots |-> FreeSlot]
    /\ n_dpy = 0
    /\ attempted = {}
    /\ failedAt = -1
    /\ failkind = "none"
    /\ ledstate = 0
    /\ running \in BOOLEAN
    /\ idents = [i \in TableSlots |-> <<>>]

(* arcan_shmif_open with SHMIF_ACQUIRE_FATALFAIL: a failed handshake ends   *)
(* the process.                                                             *)
OpenPrimary(ok) ==
    /\ epc = "open"
    /\ epc' = IF ok THEN "loop" ELSE "fatal"
    /\ prim' = IF ok THEN "open" ELSE "none"
    /\ failedAt' = IF ok THEN failedAt ELSE 0
    /\ failkind' = IF ok THEN failkind ELSE "transport"
    /\ UNCHANGED <<consoles, nd, dpytab, n_dpy, attempted, ledstate, running, idents>>
    /\ UNCHANGED <<pumpvars, geomvars, blitvars, glvars, ordvars>>

(* One iteration of the enumeration loop on console nd.  rc is the answer   *)
(* to the sub-segment request, dclok whether the listener was allocated.    *)
EnumStep(rc, dclok) ==
    /\ epc = "loop"
    /\ IF nd >= Len(consoles)
       THEN \* no console of this index: the loop ends
            /\ epc' = "after"
            /\ UNCHANGED <<nd, prim, dpytab, attempted, failedAt, failkind>>
       ELSE IF consoles[nd + 1] = "N"
       THEN \* not graphical: next index
            /\ nd' = nd + 1
            /\ UNCHANGED <<epc, prim, dpytab, attempted, failedAt, failkind>>
       ELSE LET indexed == [dpytab EXCEPT ![nd].index = nd]
            IN IF nd > 0 /\ rc = -1
               THEN \* transport failure: the primary is dropped, the function returns
                    /\ epc' = "returned"
                    /\ prim' = "dropped"
                    /\ dpytab' = indexed
                    /\ attempted' = attempted \cup {nd}
                    /\ failedAt' = nd
                    /\ failkind' = "transport"
                    /\ UNCHANGED nd
               ELSE IF nd > 0 /\ rc = 0
               THEN \* rejected: the loop ends
                    /\ epc' = "after"
                    /\ dpytab' = indexed
                    /\ attempted' = attempted \cup {nd}
                    /\ failedAt' = nd
                    /\ failkind' = "rejected"
                    /\ UNCHANGED <<nd, prim>>
               ELSE LET seg == IF nd > 0 THEN "sub" ELSE "prim"
                    IN /\ attempted' = IF nd > 0 THEN attempted \cup {nd} ELSE attempted
                       /\ IF ~dclok
                          THEN \* the segment of this display is dropped
                               /\ dpytab' = [indexed EXCEPT ![nd].seg = "dropped"]
                               /\ prim' = IF nd = 0 THEN "dropped" ELSE prim
                               /\ epc' = IF nd = 0 THEN "returned" ELSE "after"
                               /\ failedAt' = nd
                               /\ failkind' = "alloc"
                               /\ UNCHANGED nd
                          ELSE \* the listener is registered: next index
                               /\ dpytab' = [indexed EXCEPT ![nd].seg = seg,
                                                            ![nd].registered = TRUE]
                               /\ nd' = nd + 1
                               /\ UNCHANGED <<epc, prim, failedAt, failkind>>
    /\ UNCHANGED <<consoles, n_dpy, ledstate, running, idents>>
    /\ UNCHANGED <<pumpvars, geomvars, glvars, ordvars>>
    /\ UNCHANGED blitvars

(* The code after the loop: the count is stored, the buffering arguments    *)
(* are read, the handlers are installed and the titles are sent.            *)
EnumFinish(vb, ab, asz) ==
    /\ epc = "after"
    /\ epc' = "done"
    /\ n_dpy' = nd
    /\ vbufc' = vb
    /\ abufc' = ab
    /\ abuf_sz' = asz
    /\ idents' = update_display_titles(dpytab, NoIdents, ledstate, running)
    /\ UNCHANGED <<consoles, nd, prim, dpytab, attempted, failedAt, failkind,
                   ledstate, running>>
    /\ UNCHANGED <<pumpvars, geomvars, glvars, ordvars>>
    /\ UNCHANGED <<addr, seg_pitch, vidp, mode, surface, lastop, segcalls>>
    /\ UNCHANGED <<ptr, bpp, fmt, context_mask, fault, fmtcheck, stale>>

OpenAny == \E ok \in BOOLEAN : OpenPrimary(ok)
EnumStepAny == \E rc \in SubsegResults, dclok \in BOOLEAN : EnumStep(rc, dclok)
EnumFinishAny ==
    \E vb \in VbufCounts, ab \in AbufCounts, asz \in AbufSizes : EnumFinish(vb, ab, asz)

NextEnum ==
    \/ OpenAny
    \/ EnumStepAny
    \/ EnumFinishAny

SpecEnum == InitEnum /\ [][NextEnum]_vars

----------------------------------------------------------------------------
(* Properties of the enumeration.                                           *)

\* a display is active: its listener is registered and its segment is alive,
\* which for every display requires the primary segment
Active(i) ==
    /\ dpytab[i].registered
    /\ dpytab[i].seg \in {"prim", "sub"}
    /\ prim = "open"

Registered == {i \in Slots : dpytab[i].registered}
Ended == epc \in {"done", "returned"}

C25_TableAccessWithinLimit ==
    \A i \in Slots : i >= ARCAN_DISPLAY_LIMIT => dpytab[i] = FreeSlot

----------------------------------------------------------------------------
(* Status broadcast: arcan_kbd_leds and arcan_vmstate_chg, the handlers     *)
(* arcan_display_init installs before it returns.                           *)
LedStates == 0..7

(* arcan_kbd_leds: the LED state is stored, then the titles are sent.       *)
arcan_kbd_leds(state) ==
    /\ epc = "done"
    /\ ledstate' = state
    /\ idents' = update_display_titles(dpytab, NoIdents, state, running)
    /\ lastop' = Op("kbd_leds", state, 0, 0, 0)
    /\ UNCHANGED <<epc, consoles, nd, prim, dpytab, n_dpy, attempted, failedAt,
                   failkind, running>>
    /\ UNCHANGED <<addr, seg_pitch, vidp, vbufc, mode, surface, segcalls,
                   ptr, bpp, fmt, abufc, abuf_sz, context_mask, fault, fmtcheck, stale>>
    /\ UNCHANGED <<pumpvars, geomvars, glvars, ordvars>>

(* arcan_vmstate_chg: called after the run state became r; the titles are   *)
(* sent with the run state as runstate_is_running() reports it.             *)
arcan_vmstate_chg(r) ==
    /\ epc = "done"
    /\ running' = r
    /\ idents' = update_display_titles(dpytab, NoIdents, ledstate, r)
    /\ lastop' = Op("vmstate_chg", B2I(r), 0, 0, 0)
    /\ UNCHANGED <<epc, consoles, nd, prim, dpytab, n_dpy, attempted, failedAt,
                   failkind, ledstate>>
    /\ UNCHANGED <<addr, seg_pitch, vidp, vbufc, mode, surface, segcalls,
                   ptr, bpp, fmt, abufc, abuf_sz, context_mask, fault, fmtcheck, stale>>
    /\ UNCHANGED <<pumpvars, geomvars, glvars, ordvars>>

(* Enumeration for a guest whose consoles fit the table, with no buffering  *)
(* argument on the connection, followed by LED and run-state changes.       *)
InitTitle ==
    /\ InitEnum
    /\ Len(consoles) <= ARCAN_DISPLAY_LIMIT

EnumFinishDefault == EnumFinish(vbufc, abufc, abuf_sz)
KbdLedsAny == \E state \in LedStates : arcan_kbd_leds(state)
VmStateChgAny == \E r \in BOOLEAN : arcan_vmstate_chg(r)

NextTitle ==
    \/ OpenAny
    \/ EnumStepAny
    \/ EnumFinishDefault
    \/ KbdLedsAny
    \/ VmStateChgAny

SpecTitle == InitTitle /\ [][NextTitle]_vars

\* a step of one of the two handlers
BroadcastStep == lastop'.op \in {"kbd_leds", "vmstate_chg"}

Has(letters, c) == \E k \in 1..Len(letters) : letters[k] = c

(* C18: a broadcast caused by an LED or run-state change enqueues exactly   *)
(* one identification message on every slot whose segment is live and none *)
(* on any other slot; the message of slot i carries index i, the letter S,  *)
(* N or C exactly when the scroll, num or caps bit of the LED state as      *)
(* changed is set, and Running when the guest runs, Suspended otherwise.    *)
C18_BroadcastTitles ==
    [][BroadcastStep =>
          \A i \in TableSlots :
              IF dpytab[i].registered
              THEN /\ Len(idents'[i]) = 1
                   /\ idents'[i][1].index = i
                   /\ Has(idents'[i][1].leds, "S") <=> Bit(ledstate', QEMU_SCROLL_LOCK_LED)
                   /\ Has(idents'[i][1].leds, "N") <=> Bit(ledstate', QEMU_NUM_LOCK_LED)
                   /\ Has(idents'[i][1].leds, "C") <=> Bit(ledstate', QEMU_CAPS_LOCK_LED)
                   /\ idents'[i][1].state = IF running' THEN "Running" ELSE "Suspended"
              ELSE idents'[i] = <<>>]_vars

C18_Witness ==
    /\ lastop.op = "kbd_leds"
    /\ ledstate = 5
    /\ ~running
    /\ idents[0] = <<[index |-> 0, leds |-> <<"S", "C">>, state |-> "Suspended"]>>
    /\ dpytab[1].registered
    /\ Len(idents[1]) = 1
    /\ ~dpytab[2].registered
    /\ idents[2] = <<>>
    /\ dpytab[3].registered
    /\ Len(idents[3]) = 1

----------------------------------------------------------------------------
(* The event pump with the content of the queue: the compositor appends     *)
(* events at the tail, arcan_shmif_poll takes them from the head.           *)
OrdEvents ==
    {e \in Events :
        \/ IsKeyEvent(e) /\ e.devkind = "KEYBOARD" /\ e.scancode = 1 /\ e.active = 1
        \/ e.devkind = "MOUSE" /\ e.datatype = "DIGITAL"
              /\ e.subid = MBTN_LEFT_IND /\ e.active = 1
        \/ e.devkind = "MOUSE" /\ e.datatype = "ANALOG" /\ e.subid = 0
        \/ IsReset(e) /\ e.iv0 = 0
        \/ IsFocusLoss(e) /\ e.iv2 = 4}

LogEvent(e, calls, req, s) ==
    [what |-> "event", ev |-> e, calls |-> calls, runreq |-> req, sig |-> s]
LogSync ==
    [what |-> "sync", ev |-> NoEvent, calls |-> <<>>, runreq |-> "none", sig |-> "none"]

(* An event arrives; a tick handles at most MaxQueue + 1 events.            *)
OrdEnqueue(e) ==
    /\ shmif_arrive
    /\ pc = "poll" => Len(arrived) <= MaxQueue
    /\ queue' = Append(queue, e)
    /\ arrived' = IF pc = "poll" THEN Append(arrived, e) ELSE arrived
    /\ UNCHANGED log

(* arcan_refresh is entered: the tick starts with the events that wait.     *)
OrdBegin ==
    /\ refresh_enter
    /\ arrived' = queue
    /\ log' = <<>>
    /\ UNCHANGED queue

\* mutant: the input queue is synchronised inside the loop
OrdPoll_eager ==
    /\ queue # <<>>
    /\ refresh_dispatch(Head(queue))
    /\ queue' = Tail(queue)
    /\ log' = log \o <<LogEvent(Head(queue), out', runreq', sig')>>
                  \o (IF queue_flush' THEN <<LogSync>> ELSE <<>>)
    /\ UNCHANGED arrived

(* One iteration of the loop on the event at the head of the queue.         *)
OrdPoll ==
    /\ queue # <<>>
    /\ refresh_dispatch(Head(queue))
    /\ queue' = Tail(queue)
    /\ log' = Append(log, LogEvent(Head(queue), out', runreq', sig'))
    /\ UNCHANGED arrived

(* The queue is empty: the loop ends, the synchronisation is made if        *)
(* queue_flush is set.                                                      *)
OrdEnd ==
    /\ refresh_leave
    /\ log' = IF queue_flush THEN Append(log, LogSync) ELSE log
    /\ UNCHANGED <<queue, arrived>>

OrdEnqueueAny == \E e \in OrdEvents : OrdEnqueue(e)

NextOrd ==
    \/ OrdEnqueueAny
    \/ OrdBegin
    \/ OrdPoll
    \/ OrdEnd

SpecOrd == Init /\ [][NextOrd]_vars

IsEventEntry(x) == x.what = "event"
IsSyncEntry(x) == x.what = "sync"
Applied == SelectSeq(log, IsEventEntry)

\* the calls, request and signal an event stands for, whatever the segment holds
EntryMatches(x) ==
    /\ x.ev.category = "IO" =>
          /\ x.calls = input_event(x.ev, ZeroTable, seg_w, seg_h).calls
          /\ x.runreq = "none"
          /\ x.sig = "none"
    /\ IsReset(x.ev) => x.runreq # "none" /\ x.sig = "SIGVID" /\ x.calls = <<>>
    /\ IsFocusLoss(x.ev) =>
          /\ x.runreq = "none" /\ x.sig = "none"
          /\ \A k \in 1..Len(x.calls) : x.calls[k][1] = "key" /\ x.calls[k][3] = 0

(* C21: within a tick the virtual-input calls and the system-event effects  *)
(* are made event by event in the order the events arrived; the input queue *)
(* is synchronised at most once in the tick, and not before the last event  *)
(* of the tick has been handled.                                            *)
C21_ArrivalOrderThenSync ==
    /\ [k \in 1..Len(Applied) |-> Applied[k].ev]
          \o (IF pc = "poll" THEN queue ELSE <<>>) = arrived
    /\ \A k \in 1..Len(Applied) : EntryMatches(Applied[k])
    /\ Len(SelectSeq(log, IsSyncEntry)) <= 1
    /\ \A k \in 1..Len(log) : IsSyncEntry(log[k]) => (k = Len(log) /\ pc = "idle")

C21_Witness ==
    /\ pc = "idle"
    /\ Len(log) = 3
    /\ IsReset(log[1].ev)
    /\ log[2].ev.datatype = "ANALOG"
    /\ log[2].calls # <<>>
    /\ IsSyncEntry(log[3])

----------------------------------------------------------------------------
----------------------------------------------------------------------------
(* The GL contexts.  context_mask is the static unsigned of the file; live  *)
(* holds the handles of the contexts created and not yet destroyed, in the  *)
(* order of their creation, and lasthandle the value the last               *)
(* arcan_egl_create_context returned.                                       *)

\* bit i of the mask; the mask never holds a bit above position 1 (see
\* arcan_egl_create_context), positions from 31 on are out of reach
MaskBit(mask, i) == i < 31 /\ Bit(mask, 2 ^ i)

Range(q) == {q[k] : k \in 1..Len(q)}

RemoveOne(q, h) ==
    LET k == CHOOSE j \in 1..Len(q) : q[j] = h /\ \A l \in 1..(j - 1) : q[l] # h
    IN  SubSeq(q, 1, k - 1) \o SubSeq(q, k + 1, Len(q))

\* the loop of arcan_egl_create_context: the first i of 0..63 whose bit is clear
FirstClear(mask) ==
    CHOOSE i \in 0..63 : ~MaskBit(mask, i) /\ \A j \in 0..(i - 1) : MaskBit(mask, j)

ExtSetupCall == <<"shmifext_setup">>
ExtDropCall == <<"shmifext_drop_context">>

(* arcan_egl_create_context: the mask is assigned the bit of the first      *)
(* clear position, and that position is returned as the handle.             *)
arcan_egl_create_context ==
    /\ ~fault
    /\ Len(live) < MaxCtx
    /\ LET i == FirstClear(context_mask)
       IN /\ context_mask' = 2 ^ i
          /\ lasthandle' = i
          /\ live' = Append(live, i)
    /\ segcalls' = <<ExtSetupCall>>
    /\ lastop' = Op("create_context", 0, 0, 0, 0)
    /\ UNCHANGED <<pumpvars, geomvars, enumvars, ordvars>>
    /\ UNCHANGED <<addr, seg_pitch, vidp, vbufc, mode, surface, ptr, bpp, fmt,
                   abufc, abuf_sz, fault, fmtcheck, stale>>

(* arcan_egl_destroy_context on the handle of a context that exists: the    *)
(* bit of the handle is cleared.                                            *)
arcan_egl_destroy_context(ctx) ==
    /\ ~fault
    /\ ctx \in Range(live)
    /\ context_mask' = IF MaskBit(context_mask, ctx)
                       THEN context_mask - 2 ^ ctx
                       ELSE context_mask
    /\ live' = RemoveOne(live, ctx)
    /\ segcalls' = <<ExtDropCall>>
    /\ lastop' = Op("destroy_context", 0, 0, 0, 0)
    /\ UNCHANGED <<pumpvars, geomvars, enumvars, ordvars>>
    /\ UNCHANGED <<addr, seg_pitch, vidp, vbufc, mode, surface, ptr, bpp, fmt,
                   abufc, abuf_sz, fault, fmtcheck, stale, lasthandle>>

DestroyAny == \E ctx \in 0..63 : arcan_egl_destroy_context(ctx)

NextGL ==
    \/ arcan_egl_create_context
    \/ DestroyAny
    \/ ScanoutAny

SpecGL == Init /\ [][NextGL]_vars

(* C22: while a context created and not yet destroyed exists, a scanout of  *)
(* texture tex_id over (x, y, w, h) makes that region the dirty rectangle   *)
(* and signals the frame with the texture id, whatever creations and        *)
(* destructions came before.                                                *)
C22_ScanoutSignalsWhileContextLive ==
    [][\A tex_id \in 1..MaxTex, x \in 0..1, y \in 0..1,
          w \in 1..MaxDim, h \in 1..MaxDim :
          (live # <<>> /\ arcan_gl_scanout_texture(tex_id, x, y, w, h)) =>
              /\ dirty' = <<x, y, x + w, y + h>>
              /\ sig' = "SIGVID"
              /\ segcalls' = <<ExtSignalCall(tex_id)>>]_vars

\* a step of arcan_egl_create_context
CreateStep == lastop'.op = "create_context"

MaskExact == {i \in 0..30 : MaskBit(context_mask, i)} = Range(live)

(* C23: the handle arcan_egl_create_context returns is the handle of no     *)
(* context that exists at the call, and after every creation or destruction *)
(* the bits set in context_mask are exactly the handles of the contexts     *)
(* that exist.                                                              *)
C23_HandlesFreshMaskExact ==
    [][/\ CreateStep => lasthandle' \notin Range(live)
       /\ MaskExact']_vars

----------------------------------------------------------------------------
(* The repack loop on surfaces of every format arcan_check_format accepts.  *)

AcceptedFormats == {f \in Formats : arcan_check_format(f)}

AcceptedSurfaces ==
    {Surface(w, h, pad, f) : w \in 1..MaxDim, h \in 1..MaxDim, pad \in {0, 1},
                             f \in AcceptedFormats}

\* The byte of a 32-bit pixel that holds channel c, on a little-endian host:
\* a format names its channels from the most significant bits of the word
\* down, so x8r8g8b8 lies in memory as blue, green, red, padding and
\* b8g8r8x8 as padding, red, green, blue.
ChannelOffset(f, c) ==
    IF f \in {"x8r8g8b8", "a8r8g8b8"}
    THEN CASE c = "b" -> 0 [] c = "g" -> 1 [] c = "r" -> 2
    ELSE CASE c = "r" -> 1 [] c = "g" -> 2 [] c = "b" -> 3

\* the value of channel c of the source pixel (px, py) of surface srf
Channel(srf, px, py, c) ==
    SrcByte(py * srf.stride + px * 4 + ChannelOffset(srf.format, c))

SwitchAccepted ==
    \E srf \in AcceptedSurfaces, pitch \in 1..(MaxDim + 1) :
        /\ pitch <= srf.w + 1
        /\ \E d \in surface_dims(srf) : arcan_switch(srf, pitch, d)

NextPix ==
    \/ SwitchAccepted
    \/ UpdateAny

SpecPix == InitBlit /\ [][NextPix]_vars

(* C24: for a surface of any of the four formats arcan_check_format         *)
(* accepts, an arcan_update in REPACK mode leaves in every destination      *)
(* pixel it writes the encoding (r, g, b, 255) of the red, green and blue   *)
(* values that the source pixel it was copied from has in that format.      *)
C24_RepackDecodesAcceptedFormats ==
    [][(UpdateStep /\ mode = "REPACK" /\ arcan_check_format(surface.format)) =>
          LET r == EffectiveRegion(vbufc, lastop'.x, lastop'.y, lastop'.w,
                                   lastop'.h, seg_w, seg_h)
          IN \A row \in r.y..(r.y + r.h - 1), col \in 0..(r.w - 1) :
                (row < seg_h /\ col < seg_pitch) =>
                    vidp'[row * seg_pitch + col] =
                        SHMIF_RGBA(Channel(surface, r.x + col, row, "r"),
                                   Channel(surface, r.x + col, row, "g"),
                                   Channel(surface, r.x + col, row, "b"), 255)]_vars

====
